---------------------------- MODULE Spec2Model ----------------------------
(***************************************************************************)
(* Model of ibc_proto::protobuf::Protobuf<Raw> (src/src/protobuf/mod.rs),  *)
(* instantiated with the pairing of the module's own example:              *)
(*   MyRawType    { a: uint64 (tag 1), b: string (tag 2) }                 *)
(*   MyDomainType { a, b }  with  a >= 1                                   *)
(* The trait's methods delegate to prost::Message on the raw type, so the  *)
(* proto3 wire codec that #[derive(Message)] generates for MyRawType is    *)
(* modelled byte for byte (varints, keys, field merge, unknown-field skip, *)
(* length-delimited framing, UTF-8 validation of strings).                 *)
(*                                                                         *)
(* Bytes are 0..255, byte strings are sequences of bytes, a Rust String is *)
(* the sequence of its UTF-8 bytes.                                        *)
(***************************************************************************)
EXTENDS Integers, Sequences, FiniteSets, TLC

\* ------------------------------------------------------------------ bounds

\* Scaled stand-in for isize::MAX, the most bytes a Vec<u8> may hold:
\* BufMut::remaining_mut of a Vec is that limit minus its length.
VecLimit == 7

\* Most decode calls made on one reader before it is reopened.
MaxReads == 2

\* ----------------------------------------------------------- byte strings

Take(s, n) == SubSeq(s, 1, n)

Drop(s, n) == SubSeq(s, n + 1, Len(s))

IsPrefix(p, s) == Len(p) <= Len(s) /\ Take(s, Len(p)) = p

\* ------------------------------------------------- the example type pairing

DefaultRaw == [a |-> 0, b |-> <<>>]

\* impl From<MyDomainType> for MyRawType
Raw_from(value) == [a |-> value.a, b |-> value.b]

\* MyDomainType::new
MyDomainType_new(a, b) ==
    IF a < 1
    THEN [ok |-> FALSE, val |-> DefaultRaw, err |-> "a must be greater than 0"]
    ELSE [ok |-> TRUE, val |-> [a |-> a, b |-> b], err |-> ""]

\* impl TryFrom<MyRawType> for MyDomainType
Domain_try_from(value) == MyDomainType_new(value.a, value.b)

\* ------------------------------------------------------------ erasure layer

\* erased::CloneInto<Raw>::clone_into(&self): clone, then the consuming From.
clone_into(self) == Raw_from(self)

\* erased::TryFrom<Raw>::try_from(raw): forwards to the ordinary TryFrom.
erased_try_from(raw) == Domain_try_from(raw)

\* ----------------------------------------------------------- error taxonomy

Ok(v) == [kind |-> "Ok", val |-> v]

Error_decode_message(e) == [kind |-> "DecodeMessage", cause |-> e]

Error_encode_message(e) == [kind |-> "EncodeMessage", cause |-> e]

Error_try_from(e) ==
    [kind |-> "TryFrom", raw_type |-> "MyRawType",
     domain_type |-> "MyDomainType", cause |-> e]

\* --------------------------------------------------- wire codec: primitives
\* A step of the codec returns [ok, val, rest, err]: rest is what is left of
\* the input after a step that succeeded. How far a failed step has read is
\* no part of the codec's contract, and is left open (see the decode actions).

Good(v, rest) == [ok |-> TRUE, val |-> v, rest |-> rest, err |-> ""]

Bad(e) == [ok |-> FALSE, val |-> 0, rest |-> <<>>, err |-> e]

\* prost::encoding::encode_varint: 7 bits per byte, low group first, the top
\* bit set on every byte but the last.
RECURSIVE encode_varint(_)
encode_varint(value) ==
    IF value < 128
    THEN <<value>>
    ELSE <<128 + (value % 128)>> \o encode_varint(value \div 128)

\* 64 - leading_zeros(value), for value > 0
RECURSIVE BitLen(_)
BitLen(value) == IF value = 0 THEN 0 ELSE 1 + BitLen(value \div 2)

\* prost::encoding::encoded_len_varint:
\*   ((((value | 1).leading_zeros() ^ 63) * 9 + 73) / 64)
encoded_len_varint(value) ==
    LET highBit == IF value = 0 THEN 0 ELSE BitLen(value) - 1
    IN  (highBit * 9 + 73) \div 64

\* prost::encoding::decode_varint: at most 10 bytes, the tenth below 2.
\* (The model's integers hold the values of varints of up to 4 bytes, which is
\* all the inputs below contain.)
RECURSIVE decode_varint_at(_, _, _, _)
decode_varint_at(buf, count, acc, mult) ==
    IF buf = <<>>
    THEN Bad("invalid varint")
    ELSE LET byte == Head(buf) IN
         IF byte < 128
         THEN IF count = 9 /\ byte >= 2
              THEN Bad("invalid varint")
              ELSE Good(acc + byte * mult, Tail(buf))
         ELSE IF count = 9
              THEN Bad("invalid varint")
              ELSE decode_varint_at(Tail(buf), count + 1,
                                    acc + (byte - 128) * mult, mult * 128)

decode_varint(buf) == decode_varint_at(buf, 0, 0, 1)

\* WireType: 0 Varint, 1 SixtyFourBit, 2 LengthDelimited, 3 StartGroup,
\* 4 EndGroup, 5 ThirtyTwoBit.
encode_key(tag, wire_type) == encode_varint(tag * 8 + wire_type)

key_len(tag) == encoded_len_varint(tag * 8)

\* prost::encoding::decode_key; val is <<tag, wire_type>>. key_of is the
\* part after the key's varint is read.
key_of(k) ==
    IF ~k.ok THEN k
    ELSE IF k.val % 8 > 5 THEN Bad("invalid wire type value")
    ELSE IF k.val \div 8 < 1 THEN Bad("invalid tag value: 0")
    ELSE Good(<<k.val \div 8, k.val % 8>>, k.rest)

decode_key(buf) == key_of(decode_varint(buf))

\* core::str::from_utf8(..).is_ok(): well-formed UTF-8 (RFC 3629, table 3-7).
Cont(s, i) == i <= Len(s) /\ s[i] >= 128 /\ s[i] <= 191

In(s, i, lo, hi) == i <= Len(s) /\ s[i] >= lo /\ s[i] <= hi

RECURSIVE is_utf8(_)
is_utf8(s) ==
    IF s = <<>> THEN TRUE
    ELSE LET c == s[1] IN
         IF c < 128 THEN is_utf8(Drop(s, 1))
         ELSE IF c >= 194 /\ c <= 223
              THEN Cont(s, 2) /\ is_utf8(Drop(s, 2))
         ELSE IF c = 224
              THEN In(s, 2, 160, 191) /\ Cont(s, 3) /\ is_utf8(Drop(s, 3))
         ELSE IF (c >= 225 /\ c <= 236) \/ c = 238 \/ c = 239
              THEN Cont(s, 2) /\ Cont(s, 3) /\ is_utf8(Drop(s, 3))
         ELSE IF c = 237
              THEN In(s, 2, 128, 159) /\ Cont(s, 3) /\ is_utf8(Drop(s, 3))
         ELSE IF c = 240
              THEN In(s, 2, 144, 191) /\ Cont(s, 3) /\ Cont(s, 4)
                   /\ is_utf8(Drop(s, 4))
         ELSE IF c >= 241 /\ c <= 243
              THEN Cont(s, 2) /\ Cont(s, 3) /\ Cont(s, 4) /\ is_utf8(Drop(s, 4))
         ELSE IF c = 244
              THEN In(s, 2, 128, 143) /\ Cont(s, 3) /\ Cont(s, 4)
                   /\ is_utf8(Drop(s, 4))
         ELSE FALSE

\* ------------------------------------------- wire codec: MyRawType's fields

\* Buf::advance after the check `len > buf.remaining()`.
advance(buf, len) ==
    IF len > Len(buf) THEN Bad("buffer underflow") ELSE Good(0, Drop(buf, len))

\* A length-delimited field that is skipped, once its length is read.
advance_by(l) == IF ~l.ok THEN l ELSE advance(l.rest, l.val)

\* A varint field that is skipped, once the varint is read.
skipped(v) == IF v.ok THEN Good(0, v.rest) ELSE v

\* prost::encoding::skip_field, for a field the message does not declare.
\* A group is skipped field by field up to the end-group key of its own tag
\* (skip_group reads a key, skip_group_key acts on it, skip_group_next goes on
\* after a field inside the group).
RECURSIVE skip_field(_, _, _, _)
RECURSIVE skip_group(_, _, _)
RECURSIVE skip_group_key(_, _, _)
RECURSIVE skip_group_next(_, _, _)
skip_field(wire_type, tag, buf, depth) ==
    IF depth >= 100 THEN Bad("recursion limit reached")
    ELSE IF wire_type = 0 THEN skipped(decode_varint(buf))
    ELSE IF wire_type = 1 THEN advance(buf, 8)
    ELSE IF wire_type = 2 THEN advance_by(decode_varint(buf))
    ELSE IF wire_type = 3 THEN skip_group(tag, buf, depth)
    ELSE IF wire_type = 4 THEN Bad("unexpected end group tag")
    ELSE advance(buf, 4)

skip_group(tag, buf, depth) == skip_group_key(tag, decode_key(buf), depth)

skip_group_key(tag, k, depth) ==
    IF ~k.ok THEN k
    ELSE IF k.val[2] = 4
         THEN IF k.val[1] # tag
              THEN Bad("unexpected end group tag")
              ELSE Good(0, k.rest)
    ELSE skip_group_next(tag, skip_field(k.val[2], k.val[1], k.rest, depth + 1),
                         depth)

skip_group_next(tag, s, depth) ==
    IF ~s.ok THEN s ELSE skip_group(tag, s.rest, depth)

\* prost::encoding::uint64::merge
uint64_merge(wire_type, buf) ==
    IF wire_type # 0 THEN Bad("invalid wire type") ELSE decode_varint(buf)

\* prost::encoding::string::merge: the bytes replace the value, and must be
\* UTF-8. string_of is the part after the length is read.
string_of(l) ==
    IF ~l.ok THEN l
    ELSE IF l.val > Len(l.rest) THEN Bad("buffer underflow")
    ELSE IF ~is_utf8(Take(l.rest, l.val))
         THEN Bad("invalid string value: data is not UTF-8 encoded")
    ELSE Good(Take(l.rest, l.val), Drop(l.rest, l.val))

string_merge(wire_type, buf) ==
    IF wire_type # 2 THEN Bad("invalid wire type")
    ELSE string_of(decode_varint(buf))

\* The message after a field's merge returned v.
set_a(msg, v) == IF v.ok THEN Good([msg EXCEPT !.a = v.val], v.rest) ELSE v

set_b(msg, v) == IF v.ok THEN Good([msg EXCEPT !.b = v.val], v.rest) ELSE v

unset(msg, s) == IF s.ok THEN Good(msg, s.rest) ELSE s

\* <MyRawType as Message>::merge_field, as #[derive(Message)] generates it.
merge_field(msg, tag, wire_type, buf) ==
    IF tag = 1 THEN set_a(msg, uint64_merge(wire_type, buf))
    ELSE IF tag = 2 THEN set_b(msg, string_merge(wire_type, buf))
    ELSE unset(msg, skip_field(wire_type, tag, buf, 0))

\* One turn of the decode loops: a key, then its field.
merge_keyed(msg, k) ==
    IF ~k.ok THEN k ELSE merge_field(msg, k.val[1], k.val[2], k.rest)

merge_one(msg, buf) == merge_keyed(msg, decode_key(buf))

\* <MyRawType as Message>::encode_raw: proto3 omits a field that holds its
\* default.
encode_raw(raw) ==
    (IF raw.a # 0 THEN encode_key(1, 0) \o encode_varint(raw.a) ELSE <<>>)
    \o (IF raw.b # <<>>
        THEN encode_key(2, 2) \o encode_varint(Len(raw.b)) \o raw.b
        ELSE <<>>)

\* <MyRawType as Message>::encoded_len, computed without encoding.
Raw_encoded_len(raw) ==
    (IF raw.a # 0 THEN key_len(1) + encoded_len_varint(raw.a) ELSE 0)
    + (IF raw.b # <<>>
       THEN key_len(2) + encoded_len_varint(Len(raw.b)) + Len(raw.b)
       ELSE 0)

\* --------------------------------------------- wire codec: prost::Message
\* The encoders return [ok, buf, err]: buf is the destination afterwards.

\* <Vec<u8> as BufMut>::remaining_mut
remaining_mut(buf) == VecLimit - Len(buf)

EncodeError(required, remaining) ==
    [required |-> required, remaining |-> remaining]

\* Message::encode: refuses when the destination cannot take the message,
\* else appends encode_raw's bytes.
Raw_encode(raw, buf) ==
    LET required == Raw_encoded_len(raw)
        remaining == remaining_mut(buf)
    IN  IF required > remaining
        THEN [ok |-> FALSE, buf |-> buf, err |-> EncodeError(required, remaining)]
        ELSE [ok |-> TRUE, buf |-> buf \o encode_raw(raw), err |-> ""]

\* Message::encode_length_delimited: the length as a varint, then the message.
Raw_encode_length_delimited(raw, buf) ==
    LET len == Raw_encoded_len(raw)
        required == len + encoded_len_varint(len)
        remaining == remaining_mut(buf)
    IN  IF required > remaining
        THEN [ok |-> FALSE, buf |-> buf, err |-> EncodeError(required, remaining)]
        ELSE [ok |-> TRUE, buf |-> buf \o encode_varint(len) \o encode_raw(raw),
              err |-> ""]

\* Message::encode_to_vec: a fresh Vec of encoded_len capacity.
Raw_encode_to_vec(raw) == encode_raw(raw)

\* Message::encode_length_delimited_to_vec
Raw_encode_length_delimited_to_vec(raw) ==
    encode_varint(Raw_encoded_len(raw)) \o encode_raw(raw)

\* Message::merge: fields are merged for as long as the input has bytes.
RECURSIVE merge_all(_, _)
RECURSIVE merge_rest(_)
merge_all(msg, buf) ==
    IF buf = <<>> THEN Good(msg, buf) ELSE merge_rest(merge_one(msg, buf))

merge_rest(r) == IF ~r.ok THEN r ELSE merge_all(r.val, r.rest)

\* Message::decode
Raw_decode(buf) == merge_all(DefaultRaw, buf)

\* prost::encoding::merge_loop, after the length is read: fields are merged
\* until no more than `limit` bytes are left, and exactly `limit` must be.
RECURSIVE merge_until(_, _, _)
RECURSIVE merge_until_rest(_, _)
merge_until(msg, buf, limit) ==
    IF Len(buf) > limit THEN merge_until_rest(merge_one(msg, buf), limit)
    ELSE IF Len(buf) # limit THEN Bad("delimited length exceeded")
    ELSE Good(msg, buf)

merge_until_rest(r, limit) ==
    IF ~r.ok THEN r ELSE merge_until(r.val, r.rest, limit)

\* prost::encoding::merge_loop, from the length on.
merge_loop(l) ==
    IF ~l.ok THEN l
    ELSE IF l.val > Len(l.rest) THEN Bad("buffer underflow")
    ELSE merge_until(DefaultRaw, l.rest, Len(l.rest) - l.val)

\* Message::decode_length_delimited
Raw_decode_length_delimited(buf) == merge_loop(decode_varint(buf))

\* ------------------------------------------------------------ hex renderer

\* subtle_encoding::hex::encode: two lowercase digits per byte, high nibble
\* first, as ASCII codes ('0' is 48, 'a' is 97).
hex_digit(nibble) == IF nibble < 10 THEN 48 + nibble ELSE 87 + nibble

RECURSIVE hex_encode(_)
hex_encode(bytes) ==
    IF bytes = <<>> THEN <<>>
    ELSE <<hex_digit(Head(bytes) \div 16), hex_digit(Head(bytes) % 16)>>
         \o hex_encode(Tail(bytes))

\* --------------------------------------------------- the Protobuf<Raw> trait
\* encode and encode_length_delimited return [res, buf]; decode and
\* decode_length_delimited return [res, rest, converted], where converted
\* says whether the raw-to-domain conversion was called.

\* .map_err(Error::encode_message) on the codec's result r.
encoded(r) ==
    [res |-> IF r.ok THEN Ok("unit") ELSE Error_encode_message(r.err),
     buf |-> r.buf]

\* Mutants of encode: the length-delimited codec call in its place; the buffer
\* cleared before the message is written.
encode_framed(self, buf) ==
    encoded(Raw_encode_length_delimited(clone_into(self), buf))

encode_cleared(self, buf) == encoded(Raw_encode(clone_into(self), <<>>))

encode(self, buf) == encoded(Raw_encode(clone_into(self), buf))

\* Mutant of encode_length_delimited: the unframed codec call in its place.
encode_length_delimited_plain(self, buf) ==
    encoded(Raw_encode(clone_into(self), buf))

encode_length_delimited(self, buf) ==
    encoded(Raw_encode_length_delimited(clone_into(self), buf))

\* Mutant of converted_to: the conversion's failure is dropped and the value
\* it left is returned.
converted_lossy(t, rest) ==
    [res |-> Ok(t.val), rest |-> rest, converted |-> TRUE]

\* Self::try_from(raw).map_err(Error::try_from::<Raw, Self, _>), t being what
\* try_from returned.
converted_to(t, rest) ==
    [res |-> IF t.ok THEN Ok(t.val) ELSE Error_try_from(t.err),
     rest |-> rest, converted |-> TRUE]

\* Mutant of decoded: a codec failure is replaced by the default raw value.
decoded_or_default(r) ==
    IF ~r.ok
    THEN converted_to(erased_try_from(DefaultRaw), <<>>)
    ELSE converted_to(erased_try_from(r.val), r.rest)

\* .map_err(Error::decode_message)? on the codec's result r, then the
\* conversion of the raw value.
decoded(r) ==
    IF ~r.ok
    THEN [res |-> Error_decode_message(r.err), rest |-> r.rest,
          converted |-> FALSE]
    ELSE converted_to(erased_try_from(r.val), r.rest)

\* Mutant of decode: the length-delimited codec call in its place.
decode_framed(buf) == decoded(Raw_decode_length_delimited(buf))

decode(buf) == decoded(Raw_decode(buf))

\* Mutants of decode_length_delimited: the unframed codec call in its place;
\* the whole reader consumed, whatever the length says.
decode_length_delimited_plain(buf) == decoded(Raw_decode(buf))

drained(r) == [r EXCEPT !.rest = <<>>]

decode_length_delimited_whole(buf) ==
    drained(decoded(Raw_decode_length_delimited(buf)))

decode_length_delimited(buf) == decoded(Raw_decode_length_delimited(buf))

\* Mutant of encoded_len: the length prefix counted in.
encoded_len_delimited(self) ==
    Raw_encoded_len(clone_into(self))
    + encoded_len_varint(Raw_encoded_len(clone_into(self)))

encoded_len(self) == Raw_encoded_len(clone_into(self))

encode_vec(self) == Raw_encode_to_vec(clone_into(self))

decode_vec(v) == decode(v)

encode_length_delimited_vec(self) ==
    Raw_encode_length_delimited_to_vec(clone_into(self))

decode_length_delimited_vec(v) == decode_length_delimited(v)

\* String::from_utf8(encoded).expect(..): aborts unless the text is UTF-8.
from_utf8_expect(text) ==
    IF is_utf8(text) THEN Ok(text) ELSE [kind |-> "Panic", val |-> text]

\* Mutant of encode_to_hex_string: the length-delimited bytes rendered.
encode_to_hex_string_delimited(self) ==
    from_utf8_expect(hex_encode(encode_length_delimited_vec(self)))

encode_to_hex_string(self) == from_utf8_expect(hex_encode(encode_vec(self)))

\* ------------------------------------------------------- values and inputs

\* The string fields tried: "" and "x".
Strings == {<<>>, <<120>>}

\* Values of field a: one-, two- and three-byte varints, with the last
\* one-byte value and the first two-byte value.
AValues == {1, 5, 127, 128, 300, 16384}

\* Values MyDomainType::new accepts.
DomainValues == [a : AValues, b : Strings]

\* The values written into the caller's buffer, few so that the buffers the
\* model reaches stay few.
WrittenValues == [a : {5, 300}, b : Strings]

\* Values of MyRawType, those with a = 0 included.
RawValues == [a : {0} \cup AValues, b : Strings]

ProperPrefixes(s) == {Take(s, n) : n \in 0..(Len(s) - 1)}

\* Bytes met after a message: further fields of MyRawType, fields it does not
\* declare, and bytes that are no field.
FieldTrailers ==
    { <<8, 7>>,             \* field 1 again: a = 7
      <<18, 1, 121>>,       \* field 2 again: b = "y"
      <<24, 1>>,            \* field 3, varint: not declared
      <<29, 1, 2, 3, 4>>,   \* field 3, 32 bit: not declared
      <<27, 28>> }          \* field 3, an empty group: not declared

BrokenTrailers ==
    { <<255>>,              \* a key that never ends
      <<0>>,                \* tag 0
      <<15>>,               \* wire type 7
      <<10, 0>>,            \* field 1 as length-delimited
      <<18, 1, 255>>,       \* field 2 is not UTF-8
      <<18, 2, 120>>,       \* field 2 is longer than the input
      <<29, 1>>,            \* field 3, 32 bit, cut short
      <<27, 36>>,           \* field 3 group closed by field 4
      <<28>> }              \* a group end with no group

Trailers == FieldTrailers \cup BrokenTrailers

Frame(bytes) == encode_varint(Len(bytes)) \o bytes

\* The message the trailers are put after: a = 5, b = "x".
Host == encode_raw([a |-> 5, b |-> <<120>>])

\* Inputs of the unframed decoders: every raw value's encoding, every
\* encoding cut short, and an encoding followed by each trailer.
UnframedInputs ==
    UNION { {encode_raw(r)} \cup ProperPrefixes(encode_raw(r))
            : r \in RawValues }
    \cup {Host \o t : t \in Trailers}

\* Inputs of the length-delimited decoders: every raw value's frame, a frame
\* cut short, a frame followed by more bytes, a frame holding more than the
\* message, and frames whose length is one too many or one too few.
FramedInputs ==
    {Frame(encode_raw(r)) : r \in RawValues}
    \cup ProperPrefixes(Frame(Host))
    \cup {Frame(Host) \o t : t \in {<<24, 1>>, <<255>>}}
    \cup {Frame(Host \o t) : t \in {<<24, 1>>, <<255>>}}
    \cup {<<Len(Host) + 1>> \o Host, <<Len(Host) - 1>> \o Host}

\* What a caller's buffer may hold before the first call.
PriorContents == {<<>>, <<222, 173>>}

\* --------------------------------------------------------------- the state

VARIABLES
    buf,        \* the caller's output buffer, a Vec<u8>
    cur,        \* what the last decode call left unread of the reader it got
    op,         \* the last method called
    self,       \* its domain value, for the methods that take &self
    src,        \* the input it was given, for the decoding methods
    pre,        \* buf before the call
    res,        \* what it returned
    converted,  \* whether it called the raw-to-domain conversion
    reads       \* the calls made on the current reader: [op, src, res] each

vars == <<buf, cur, op, self, src, pre, res, converted, reads>>

NoSelf == [a |-> 0, b |-> <<>>]

Init ==
    /\ buf \in PriorContents
    /\ cur = <<>>
    /\ op = "init"
    /\ self = NoSelf
    /\ src = <<>>
    /\ pre = buf
    /\ res = Ok("unit")
    /\ converted = FALSE
    /\ reads = <<>>

\* A call that writes into the caller's buffer and returned r. The buffer is
\* borrowed mutably for the call, so no reader over it is alive.
Wrote(d, r) ==
    /\ self' = d
    /\ pre' = buf
    /\ buf' = r.buf
    /\ res' = r.res
    /\ src' = <<>>
    /\ cur' = <<>>
    /\ converted' = FALSE
    /\ reads' = <<>>

Encode ==
    \E d \in WrittenValues :
        /\ op' = "encode"
        /\ Wrote(d, encode(d, buf))

EncodeLengthDelimited ==
    \E d \in WrittenValues :
        /\ op' = "encode_length_delimited"
        /\ Wrote(d, encode_length_delimited(d, buf))

\* A call that only returned v, computed from &self.
Returned(d, v) ==
    /\ self' = d
    /\ pre' = buf
    /\ res' = v
    /\ src' = <<>>
    /\ cur' = <<>>
    /\ converted' = FALSE
    /\ reads' = <<>>
    /\ UNCHANGED buf

EncodedLen ==
    \E d \in DomainValues :
        /\ op' = "encoded_len"
        /\ Returned(d, Ok(encoded_len(d)))

EncodeVec ==
    \E d \in DomainValues :
        /\ op' = "encode_vec"
        /\ Returned(d, Ok(encode_vec(d)))

EncodeLengthDelimitedVec ==
    \E d \in DomainValues :
        /\ op' = "encode_length_delimited_vec"
        /\ Returned(d, Ok(encode_length_delimited_vec(d)))

EncodeToHexString ==
    \E d \in DomainValues :
        /\ op' = "encode_to_hex_string"
        /\ Returned(d, encode_to_hex_string(d))

\* A decoding call on a reader holding b, which returned r; history is the
\* calls made on that reader before. A reader on which the codec failed is
\* dropped by the caller (where it stands is not specified): cur is emptied
\* and no further call is made on it.
Read(b, r, history) ==
    /\ self' = NoSelf
    /\ pre' = buf
    /\ src' = b
    /\ res' = r.res
    /\ converted' = r.converted
    /\ cur' = IF r.res.kind = "DecodeMessage" THEN <<>> ELSE r.rest
    /\ reads' = Append(history, [op |-> op', src |-> b, res |-> r.res])
    /\ UNCHANGED buf

\* decode, on a new reader (over the buffer or over other bytes) or on the
\* reader the last decoding call was given.
Decode ==
    /\ op' = "decode"
    /\ \/ \E b \in UnframedInputs \cup {buf} : Read(b, decode(b), <<>>)
       \/ /\ reads # <<>>
          /\ res.kind # "DecodeMessage"
          /\ Len(reads) < MaxReads
          /\ Read(cur, decode(cur), reads)

DecodeLengthDelimited ==
    /\ op' = "decode_length_delimited"
    /\ \/ \E b \in FramedInputs \cup {buf} :
              Read(b, decode_length_delimited(b), <<>>)
       \/ /\ reads # <<>>
          /\ res.kind # "DecodeMessage"
          /\ Len(reads) < MaxReads
          /\ Read(cur, decode_length_delimited(cur), reads)

\* The slice forms: the caller keeps its slice, no reader is left.
ReadVec(v, r) ==
    /\ self' = NoSelf
    /\ pre' = buf
    /\ src' = v
    /\ res' = r.res
    /\ converted' = r.converted
    /\ cur' = <<>>
    /\ reads' = <<>>
    /\ UNCHANGED buf

DecodeVec ==
    \E v \in UnframedInputs \cup {buf} :
        /\ op' = "decode_vec"
        /\ ReadVec(v, decode_vec(v))

DecodeLengthDelimitedVec ==
    \E v \in FramedInputs \cup {buf} :
        /\ op' = "decode_length_delimited_vec"
        /\ ReadVec(v, decode_length_delimited_vec(v))

Next ==
    \/ Encode
    \/ EncodeLengthDelimited
    \/ EncodedLen
    \/ EncodeVec
    \/ EncodeLengthDelimitedVec
    \/ EncodeToHexString
    \/ Decode
    \/ DecodeLengthDelimited
    \/ DecodeVec
    \/ DecodeLengthDelimitedVec

Spec == Init /\ [][Next]_vars

\* ------------------------------------------------------------ properties

Decoders == {"decode", "decode_vec"}

FramedDecoders == {"decode_length_delimited", "decode_length_delimited_vec"}

IsOk(r, v) == r.kind = "Ok" /\ r.val = v

\* C1. Round trip: when decode (or decode_vec) is given the bytes that encode
\* writes for a domain value d into an empty buffer, it succeeds and returns
\* d, with nothing left unread.
C1_RoundTrip ==
    op \in Decoders =>
        \A d \in DomainValues :
            (encode(d, <<>>).res.kind = "Ok" /\ src = encode(d, <<>>).buf)
                => IsOk(res, d) /\ cur = <<>>

\* decode has just returned {a: 5, b: "x"} from the buffer into which encode
\* wrote it.
C1_Witness ==
    /\ op = "decode"
    /\ src = buf
    /\ buf = <<8, 5, 18, 1, 120>>
    /\ IsOk(res, [a |-> 5, b |-> <<120>>])

\* C2. Length-delimited round trip: when decode_length_delimited (or its
\* slice form) is given the bytes that encode_length_delimited writes for a
\* domain value d into an empty buffer, it succeeds and returns d.
C2_RoundTripLengthDelimited ==
    op \in FramedDecoders =>
        \A d \in DomainValues :
            (/\ encode_length_delimited(d, <<>>).res.kind = "Ok"
             /\ src = encode_length_delimited(d, <<>>).buf)
                => IsOk(res, d) /\ cur = <<>>

\* decode_length_delimited has just returned {a: 300, b: "x"} from the buffer
\* into which encode_length_delimited wrote it.
C2_Witness ==
    /\ op = "decode_length_delimited"
    /\ src = buf
    /\ buf = <<6, 8, 172, 2, 18, 1, 120>>
    /\ IsOk(res, [a |-> 300, b |-> <<120>>])

\* Raw values the wire codec encodes and MyDomainType::new refuses.
InvalidRaw == {r \in RawValues : r.a < 1}

\* C3. Validation propagation: when a decoder is given the codec's encoding of
\* a raw value that fails the domain type's check (a = 0), it returns a
\* TryFrom error that names the raw type and the domain type and carries the
\* cause of the refusal; it returns no domain value.
C3_ValidationPropagation ==
    \A r \in InvalidRaw :
        (\/ op \in Decoders /\ src = encode_raw(r)
         \/ op \in FramedDecoders /\ src = Frame(encode_raw(r)))
            => /\ res.kind = "TryFrom"
               /\ res.raw_type = "MyRawType"
               /\ res.domain_type = "MyDomainType"
               /\ res.cause = "a must be greater than 0"
               /\ converted

\* decode has just refused the encoding of the raw value {a: 0, b: "x"}.
C3_Witness ==
    /\ op = "decode"
    /\ src = <<18, 1, 120>>
    /\ res.kind = "TryFrom"

\* Encodings cut short inside a field: the proper prefixes of an encoding that
\* are not the encoding of a raw value themselves.
Truncated ==
    UNION {ProperPrefixes(encode_raw(r)) : r \in RawValues}
    \ {encode_raw(r) : r \in RawValues}

\* Bytes that are no encoding of MyRawType: cut short, or holding bytes that
\* are no field.
Malformed == Truncated \cup {Host \o t : t \in BrokenTrailers}

\* C4. Malformed-bytes propagation: when decode (or decode_vec) is given bytes
\* that are no encoding of the raw type, it returns a DecodeMessage error and
\* the raw-to-domain conversion is not called; and whenever a DecodeMessage
\* error is returned the conversion was not called.
C4_MalformedBytes ==
    op \in Decoders =>
        /\ src \in Malformed => res.kind = "DecodeMessage" /\ ~converted
        /\ res.kind = "DecodeMessage" <=> ~converted

\* decode has just refused the encoding of {a: 300, b: "x"} cut after four
\* bytes, inside the string field.
C4_Witness ==
    /\ op = "decode"
    /\ src = <<8, 172, 2, 18>>
    /\ res.kind = "DecodeMessage"
    /\ ~converted

\* C5. Length consistency: encoded_len(d) is the number of bytes encode_vec(d)
\* returns and the number of bytes a successful encode(d) adds to the buffer,
\* the length prefix not counted.
C5_LengthConsistency ==
    /\ op = "encoded_len" =>
           /\ res.val = Len(encode_vec(self))
           /\ res.val = Len(encode(self, <<>>).buf)
    /\ (op = "encode" /\ res.kind = "Ok") =>
           Len(buf) - Len(pre) = encoded_len(self)

\* encoded_len has just returned 7 for {a: 16384, b: "x"}.
C5_Witness ==
    /\ op = "encoded_len"
    /\ self = [a |-> 16384, b |-> <<120>>]
    /\ res.val = 7

\* C6. Append-only encode: after encode or encode_length_delimited the buffer
\* is its previous contents followed by the message's bytes when the call
\* succeeded, and its previous contents when it failed; no call of the trait
\* clears, truncates or overwrites the buffer.
C6_AppendOnly ==
    /\ IsPrefix(pre, buf)
    /\ op = "encode" =>
           buf = pre \o (IF res.kind = "Ok" THEN encode_vec(self) ELSE <<>>)
    /\ op = "encode_length_delimited" =>
           buf = pre \o (IF res.kind = "Ok"
                         THEN encode_length_delimited_vec(self) ELSE <<>>)

\* encode has just added a message to a buffer that held the caller's two
\* bytes and an earlier length-delimited message.
C6_Witness ==
    /\ op = "encode"
    /\ res.kind = "Ok"
    /\ pre = <<222, 173, 2, 8, 5>>
    /\ buf = <<222, 173, 2, 8, 5, 8, 5>>

\* The value of a lowercase hexadecimal digit, -1 for any other character.
HexValue(c) ==
    IF c >= 48 /\ c <= 57 THEN c - 48
    ELSE IF c >= 97 /\ c <= 102 THEN c - 87
    ELSE 0 - 1

\* C7. Hex rendering: encode_to_hex_string(d) does not abort, and returns two
\* lowercase hexadecimal digits for each byte that encode(d) writes, high
\* digit first, in order.
C7_Hex ==
    op = "encode_to_hex_string" =>
        LET bytes == encode(self, <<>>).buf IN
        /\ res.kind = "Ok"
        /\ Len(res.val) = 2 * Len(bytes)
        /\ \A i \in 1..Len(bytes) :
               /\ HexValue(res.val[2 * i - 1]) >= 0
               /\ HexValue(res.val[2 * i]) >= 0
               /\ 16 * HexValue(res.val[2 * i - 1]) + HexValue(res.val[2 * i])
                      = bytes[i]

\* encode_to_hex_string has just returned "08ac02" for {a: 300, b: ""}.
C7_Witness ==
    /\ op = "encode_to_hex_string"
    /\ self = [a |-> 300, b |-> <<>>]
    /\ res = Ok(<<48, 56, 97, 99, 48, 50>>)

\* C8. encode_length_delimited returns an EncodeMessage error, carrying the
\* codec's cause (the bytes required and the bytes remaining), whenever the
\* buffer cannot take the length prefix and the message; the buffer is then
\* left as it was.
C8_InsufficientCapacity ==
    op = "encode_length_delimited" =>
        LET required == Len(encode_length_delimited_vec(self)) IN
        required > remaining_mut(pre) =>
            /\ res.kind = "EncodeMessage"
            /\ res.cause = EncodeError(required, remaining_mut(pre))
            /\ buf = pre

\* encode_length_delimited has just refused {a: 5, b: ""}: the message's two
\* bytes fit the buffer, the length prefix and the message do not.
C8_Witness ==
    /\ op = "encode_length_delimited"
    /\ self = [a |-> 5, b |-> <<>>]
    /\ remaining_mut(pre) = 2
    /\ res.kind = "EncodeMessage"

\* The bytes encode_length_delimited writes for d.
FrameOf(d) == encode_length_delimited_vec(d)

Merged ==
    [t \in FieldTrailers |->
        IF t = <<8, 7>> THEN [a |-> 7, b |-> <<120>>]
        ELSE IF t = <<18, 1, 121>> THEN [a |-> 5, b |-> <<121>>]
        ELSE [a |-> 5, b |-> <<120>>]]

==========================================================================
